---- MODULE Spec2Model ----
(***************************************************************************)
(* A model of ffgoconv: the Transcode Session (transcoder.go), the frame   *)
(* stream adapter CrunchMiniBuffer and the Mux Engine (MuxSession).        *)
(*                                                                         *)
(* The adapter wraps crunch.MiniBuffer, a byte slice with ONE cursor `off` *)
(* shared by reads and writes.  Of that library the model uses:            *)
(*   NewMiniBuffer   buf = the given slice, off = 0                        *)
(*   AfterByte       cap - off - 1                                         *)
(*   Grow(n)         n zero bytes appended to buf                          *)
(*   WriteBytesNext  the bytes copied into buf at off, off advanced        *)
(*   ReadBytesNext   the caller's slice variable re-pointed to             *)
(*                   buf[off:off+n], off advanced                          *)
(*   Bytes           the whole of buf                                      *)
(***************************************************************************)
EXTENDS Integers, Sequences, FiniteSets, TLC

\* ------------------------------------------------------------------ bounds
\* Longest output, in bytes, an external process writes to its stdout.
MaxOut == 3
\* Largest frame-queue depth (BufferedFrames) a caller configures.
MaxBufferedFrames == 2
\* Longest buffer handed to TranscodeSession.Read.
MaxReadLen == 2


VARIABLES
  sess,      \* session handle -> the TranscodeSession and its external process
  task,      \* "caller" (the program using the API) and "mixer" (the engine's
             \* background task): each one's position in its code
  ret,       \* what the caller's last call returned
  crashed,   \* "" or the panic that has ended the program
  gSent,     \* history: frames the frame-assembly reader has put on the queue
  gRecvd,    \* history: frames taken from the queue, in order
  muxOptions,      \* MuxSession.options
  muxTranscoders,  \* MuxSession.muxTranscoders
  finalSession,    \* MuxSession.finalSession: a session handle, or NilSession
  finalBuffer,     \* MuxSession.finalBuffer
  muxLock,         \* MuxSession's mutex: "free" or the task holding it
  muxErr,          \* MuxSession.err
  cbCount,         \* history: per identifier, the callbacks launched
  gMixed,          \* history: the samples the mixing loop has appended
  gCalls           \* history: the calls the program has made on the engine

sessVars == <<sess, gSent, gRecvd>>
muxVars == <<muxOptions, muxTranscoders, finalSession, finalBuffer, muxLock, muxErr, cbCount, gMixed, gCalls>>
vars == <<sess, task, ret, crashed, gSent, gRecvd, muxVars>>

\* ------------------------------------------------- helpers on sequences
Zeros(n) == [i \in 1..n |-> 0]

\* ------------------------------------------- CrunchMiniBuffer (adapter)
NilBuffer == [isNil |-> TRUE, buf |-> <<>>, off |-> 0]

\* crunch.NewMiniBuffer(&b, slice)
NewMiniBuffer(slice) == [isNil |-> FALSE, buf |-> slice, off |-> 0]

\* CrunchMiniBuffer.Len: AfterByte, the bytes after the cursor, less one
MiniLen(b) == Len(b.buf) - b.off - 1

\* MiniBuffer.Grow(n)
MiniGrow(b, n) == [b EXCEPT !.buf = b.buf \o Zeros(n)]

\* MiniBuffer.WriteBytesNext(p)
WriteBytesNext(b, p) ==
  [b EXCEPT !.buf = [i \in 1..Len(b.buf) |->
                       IF i > b.off /\ i <= b.off + Len(p) THEN p[i - b.off] ELSE b.buf[i]],
            !.off = b.off + Len(p)]

\* CrunchMiniBuffer.Write(p): the buffer after the call, n and err
MiniWrite(b, p) ==
  IF Len(p) = 0
    THEN [b |-> b, n |-> 0, err |-> "cannot write from empty buffer"]
    ELSE LET length == MiniLen(b)
             grown  == IF length < Len(p) THEN MiniGrow(b, Len(p) - length) ELSE b
         IN  [b |-> WriteBytesNext(grown, p), n |-> Len(p), err |-> "nil"]

\* CrunchMiniBuffer.Read(p) for a caller's slice p of plen zero bytes: the
\* buffer after the call, n, err, and `out`, the caller's slice after the
\* call (ReadBytesNext re-points the method's own copy of the slice header,
\* so the caller's bytes stay as they were).
MiniRead(b, plen) ==
  LET length == MiniLen(b)
      same   == Zeros(plen)
  IN  IF plen = 0
        THEN [b |-> b, n |-> 0, err |-> "cannot read into empty buffer", out |-> same]
      ELSE IF length = 0
        THEN [b |-> b, n |-> 0, err |-> "EOF", out |-> same]
      ELSE IF length < 0
        THEN [b |-> b, n |-> 0, err |-> "cannot read negative indice", out |-> same]
      ELSE IF length < plen
        THEN [b |-> [b EXCEPT !.off = b.off + length], n |-> length, err |-> "nil", out |-> same]
      ELSE [b |-> [b EXCEPT !.off = b.off + plen], n |-> plen, err |-> "nil", out |-> same]

\* --------------------------------------------------- TranscodeOptions
\* StdTranscodeOptions / RawTranscodeOptions: the frame-queue depth
RawBufferedFrames == 100

Applications == {"", "voip", "audio", "lowdelay"}

RawTranscodeOptions ==
  [Volume |-> 256, FrameDuration |-> 20, Bitrate |-> 128, PacketLoss |-> 0,
   Application |-> "", CompressionLevel |-> 0, Threads |-> 0,
   BufferedFrames |-> RawBufferedFrames]

\* TranscodeOptions.Validate: "nil" or the error
Validate(opt) ==
  IF opt.Volume < 0 \/ opt.Volume > 512 THEN "volume out of bounds (0-512)"
  ELSE IF opt.FrameDuration # 20 /\ opt.FrameDuration # 40 /\ opt.FrameDuration # 60
    THEN "invalid frame duration (20, 40, 60)"
  ELSE IF opt.PacketLoss < 0 \/ opt.PacketLoss > 100
    THEN "invalid packet loss percentage (0-100)"
  ELSE IF opt.Application \notin Applications THEN "invalid audio application"
  ELSE IF opt.CompressionLevel < 0 \/ opt.CompressionLevel > 10
    THEN "compression level out of bounds (0-10)"
  ELSE IF opt.Threads < 0 THEN "thread count cannot be less than 0"
  ELSE "nil"

\* The documented range of every numeric field (the comments of the struct).
InDocumentedRange(opt) ==
  /\ opt.Volume \in 0..512
  /\ opt.FrameDuration \in {20, 40, 60}
  /\ opt.Bitrate \in 8..128
  /\ opt.PacketLoss \in 0..100
  /\ opt.CompressionLevel \in 0..10
  /\ opt.Threads >= 0
  /\ opt.BufferedFrames >= 0

\* The options a caller hands to TranscodeMem / TranscodeFile: every field
\* at a value inside its range, one below and one above.
OptionSpace ==
  [Volume : {-1, 256, 513}, FrameDuration : {20, 30}, Bitrate : {128, 129},
   PacketLoss : {-1, 1, 101}, Application : {"audio", "bogus"},
   CompressionLevel : {-1, 10, 11}, Threads : {-1, 0},
   BufferedFrames : (-1)..MaxBufferedFrames]

\* ------------------------------------------------- TranscodeSession
\* Handles: 0 is the engine's output session, 1.. are the sessions of sources;
\* a caller that uses a session directly holds handle 1.
MaxSources == 2
\* Handles: 1.. are sessions of sources (or the one a caller uses directly),
\* FinalId and FinalId2 the output sessions the first and the second Start()
\* make; NilSession is the nil pointer.
FinalId == 0
FinalId2 == -1
NilSession == -2
FinalIds == {FinalId, FinalId2}
SessIds == FinalId2..MaxSources

NoProc == [st |-> "none", out |-> <<>>, hangs |-> FALSE, fails |-> FALSE]

\* A handle no constructor has returned yet.
NoSession ==
  [alloc |-> FALSE, options |-> RawTranscodeOptions, running |-> FALSE,
   process |-> "nil", frameChannel |-> <<>>, closed |-> FALSE, err |-> "nil",
   lastFrame |-> 0, unreadBuffer |-> NilBuffer, pc |-> "none", frame |-> <<>>,
   proc |-> NoProc]

\* The struct TranscodeMem / TranscodeFile build, with `go session.run()` pending.
NewSession(opt) == [NoSession EXCEPT !.alloc = TRUE, !.options = opt, !.pc = "run"]

\* What the environment decides when ffmpeg is spawned: whether the spawn
\* works, what the process writes to stdout, whether it stays alive without
\* closing stdout once that is written (a hung process), and its exit status.
\* A directly used session's process writes the bytes 1, 2, .. n, so that
\* every frame differs from every other.
Counting(n) == [k \in 1..n |-> k]

Plans ==
  [ok : BOOLEAN, out : {Counting(n) : n \in 0..MaxOut}, hangs : BOOLEAN, fails : BOOLEAN]

\* run(), lines 185-270: under the session lock, running is set, the unread
\* buffer is made and ffmpeg is spawned.  A failed spawn closes the queue and
\* returns (the deferred function resets running); process stays nil.
RunStartOn(s, plan) ==
  IF plan.ok
    THEN [s EXCEPT !.running = TRUE, !.unreadBuffer = NewMiniBuffer(<<>>),
                   !.process = "set", !.pc = "readStdout",
                   !.proc = [st |-> "alive", out |-> plan.out,
                             hangs |-> plan.hangs, fails |-> plan.fails]]
    ELSE [s EXCEPT !.running = FALSE, !.unreadBuffer = NewMiniBuffer(<<>>),
                   !.closed = TRUE, !.pc = "done"]

\* readStdout's inner loop on a fresh frame buffer w: bytes are read from
\* stdout one at a time and written to w until w.Len() is 0 or stdout ends.
RECURSIVE FrameLoop(_, _, _)
FrameLoop(w, out, bytesRead) ==
  IF MiniLen(w) = 0 THEN [bytesRead |-> bytesRead, data |-> w.buf, rest |-> out]
  ELSE IF out = <<>> THEN [bytesRead |-> bytesRead, data |-> w.buf, rest |-> out]
  ELSE FrameLoop(MiniWrite(w, <<Head(out)>>).b, Tail(out), bytesRead + 1)

AssembleFrame(out) == FrameLoop(NewMiniBuffer(<<>>), out, 0)

\* The capacity of the frame queue: make(chan *Frame, options.BufferedFrames)
Cap(s) == s.options.BufferedFrames

\* ------------------------------------------------------------- Init
\* A task outside any call: pc is its position, want the length of the slice
\* of a Read in progress, idx its index in the source collection (or the
\* handle of the session AddSource is about to append, with arg its
\* callback), samples the samples the mixing loop has collected so far in
\* this iteration.
IdleTask == [pc |-> "idle", want |-> 0, idx |-> 0, arg |-> "nil", samples |-> <<>>]

\* Identifiers: 1.. are handed out by AddSource, 0 by nobody.
IdSpace == 0..MaxSources

\* The mixing tasks the first and the second Start() launch.
Mixers == {"mixer", "mixer2"}
Tasks == {"caller"} \cup Mixers

NoRet == [op |-> "none", err |-> "nil", n |-> 0, data |-> <<>>]

InitSession ==
  /\ sess = [i \in SessIds |-> NoSession]
  /\ task = [t \in Tasks |-> IdleTask]
  /\ ret = NoRet
  /\ crashed = ""
  /\ gSent = [i \in SessIds |-> <<>>]
  /\ gRecvd = [i \in SessIds |-> <<>>]
  /\ muxOptions = RawTranscodeOptions
  /\ muxTranscoders = <<>>
  /\ finalSession = NilSession
  /\ finalBuffer = NilBuffer
  /\ muxLock = "free"
  /\ muxErr = "nil"
  /\ cbCount = [id \in IdSpace |-> 0]
  /\ gMixed = <<>>
  /\ gCalls = 0

\* ------------------------------------------- the session's own tasks
\* run() starts: lines 177-270
RunStart(i, P) ==
  /\ crashed = ""
  /\ sess[i].pc = "run"
  /\ \E plan \in P : sess' = [sess EXCEPT ![i] = RunStartOn(sess[i], plan)]
  /\ UNCHANGED <<task, ret, crashed, gSent, gRecvd, muxVars>>

\* readStdout assembles the next frame, or returns at the end of stdout.
\* A read of an empty stdout blocks while the process is alive.
ReadStdout(i) ==
  /\ crashed = ""
  /\ sess[i].pc = "readStdout"
  /\ LET s == sess[i]
         f == AssembleFrame(s.proc.out)
     IN  /\ (f.bytesRead = 0 /\ s.proc.out = <<>>) => s.proc.st # "alive"
         /\ sess' = [sess EXCEPT ![i] =
              IF f.bytesRead = 0
                THEN [s EXCEPT !.pc = "wait"]
                ELSE [s EXCEPT !.pc = "send", !.frame = f.data,
                               !.proc = [s.proc EXCEPT !.out = f.rest]]]
  /\ UNCHANGED <<task, ret, crashed, gSent, gRecvd, muxVars>>

\* session.frameChannel <- frame: blocks while the queue is at capacity
\* (a queue of depth 0 hands the frame to a waiting receiver, see Recv);
\* then lastFrame++.
SendDropOldest(i) ==
  /\ crashed = ""
  /\ sess[i].pc = "send"
  /\ Cap(sess[i]) > 0
  /\ LET s == sess[i]
         q == IF Len(s.frameChannel) < Cap(s) THEN s.frameChannel ELSE Tail(s.frameChannel)
     IN  sess' = [sess EXCEPT ![i] =
           [s EXCEPT !.frameChannel = Append(q, s.frame), !.frame = <<>>,
                     !.lastFrame = s.lastFrame + 1, !.pc = "readStdout"]]
  /\ gSent' = [gSent EXCEPT ![i] = Append(gSent[i], sess[i].frame)]
  /\ UNCHANGED <<task, ret, crashed, gRecvd, muxVars>>

Send(i) ==
  /\ crashed = ""
  /\ sess[i].pc = "send"
  /\ Len(sess[i].frameChannel) < Cap(sess[i])
  /\ LET s == sess[i]
     IN  sess' = [sess EXCEPT ![i] =
           [s EXCEPT !.frameChannel = Append(s.frameChannel, s.frame), !.frame = <<>>,
                     !.lastFrame = s.lastFrame + 1, !.pc = "readStdout"]]
  /\ gSent' = [gSent EXCEPT ![i] = Append(gSent[i], sess[i].frame)]
  /\ UNCHANGED <<task, ret, crashed, gRecvd, muxVars>>

\* The external process ends by itself once it has written its output.
ProcExit(i) ==
  /\ crashed = ""
  /\ sess[i].proc.st = "alive"
  /\ sess[i].proc.out = <<>>
  /\ ~sess[i].proc.hangs
  /\ sess' = [sess EXCEPT ![i].proc.st = "exited"]
  /\ UNCHANGED <<task, ret, crashed, gSent, gRecvd, muxVars>>

\* A run() that stores whatever error ffmpeg.Wait returns, the kill's too.
RunWaitStoreAll(i) ==
  /\ crashed = ""
  /\ sess[i].pc = "wait"
  /\ sess[i].proc.st \in {"exited", "killed"}
  /\ sess' = [sess EXCEPT ![i].pc = "close",
                          ![i].err = IF sess[i].proc.st = "killed" THEN "signal: killed"
                                     ELSE IF sess[i].proc.fails THEN "exit status 1"
                                     ELSE sess[i].err]
  /\ UNCHANGED <<task, ret, crashed, gSent, gRecvd, muxVars>>

\* run(), lines 278-286: wg.Wait, ffmpeg.Wait; an error other than
\* "signal: killed" is stored.
RunWait(i) ==
  /\ crashed = ""
  /\ sess[i].pc = "wait"
  /\ sess[i].proc.st \in {"exited", "killed"}
  /\ sess' = [sess EXCEPT ![i].pc = "close",
                          ![i].err = IF sess[i].proc.st = "exited" /\ sess[i].proc.fails
                                       THEN "exit status 1" ELSE sess[i].err]
  /\ UNCHANGED <<task, ret, crashed, gSent, gRecvd, muxVars>>

\* run(): the deferred close(session.frameChannel), line 276
RunClose(i) ==
  /\ crashed = ""
  /\ sess[i].pc = "close"
  /\ sess' = [sess EXCEPT ![i].closed = TRUE, ![i].pc = "defer"]
  /\ UNCHANGED <<task, ret, crashed, gSent, gRecvd, muxVars>>

\* run(): the deferred reset of running, lines 179-183
RunDone(i) ==
  /\ crashed = ""
  /\ sess[i].pc = "defer"
  /\ sess' = [sess EXCEPT ![i].running = FALSE, ![i].pc = "done"]
  /\ UNCHANGED <<task, ret, crashed, gSent, gRecvd, muxVars>>

\* ------------------------------------------ operations on a session
\* Stop(): "not running" unless running with a registered process; else
\* process.Kill(), which ends a live process (its stdout then reports EOF)
\* and fails on one that has already ended.
StopOn(s) ==
  IF ~s.running \/ s.process = "nil"
    THEN [s |-> s, err |-> "not running"]
  ELSE IF s.proc.st = "alive"
    THEN [s |-> [s EXCEPT !.proc = [s.proc EXCEPT !.st = "killed", !.out = <<>>]], err |-> "nil"]
  ELSE [s |-> s, err |-> "os: process already finished"]

\* A receive that never waits: an empty, open queue yields nil at once.
CanRecvAlways(s) == s.alloc

\* <-session.frameChannel can complete: a frame is queued, a sender is
\* parked on a queue of depth 0, or the queue is closed.
CanRecv(s) ==
  \/ Len(s.frameChannel) > 0
  \/ s.pc = "send" /\ Cap(s) = 0
  \/ s.closed

\* A receive that takes the newest queued frame instead of the oldest.
RecvNewest(s) ==
  IF Len(s.frameChannel) > 0
    THEN [ok |-> TRUE, f |-> s.frameChannel[Len(s.frameChannel)],
          s |-> [s EXCEPT !.frameChannel = SubSeq(s.frameChannel, 1, Len(s.frameChannel) - 1)],
          handoff |-> FALSE]
  ELSE IF s.pc = "send" /\ Cap(s) = 0
    THEN [ok |-> TRUE, f |-> s.frame,
          s |-> [s EXCEPT !.frame = <<>>, !.lastFrame = s.lastFrame + 1, !.pc = "readStdout"],
          handoff |-> TRUE]
  ELSE [ok |-> FALSE, f |-> <<>>, s |-> s, handoff |-> FALSE]

\* <-session.frameChannel: the frame (ok) or the closed queue's nil (~ok),
\* and the session after it.  A parked sender of a depth-0 queue hands its
\* frame over and goes on (lastFrame++).
RecvOn(s) ==
  IF Len(s.frameChannel) > 0
    THEN [ok |-> TRUE, f |-> Head(s.frameChannel),
          s |-> [s EXCEPT !.frameChannel = Tail(s.frameChannel)], handoff |-> FALSE]
  ELSE IF s.pc = "send" /\ Cap(s) = 0
    THEN [ok |-> TRUE, f |-> s.frame,
          s |-> [s EXCEPT !.frame = <<>>, !.lastFrame = s.lastFrame + 1, !.pc = "readStdout"],
          handoff |-> TRUE]
  ELSE [ok |-> FALSE, f |-> <<>>, s |-> s, handoff |-> FALSE]

\* The histories after a receive r on session i.
SentAfter(i, r) == IF r.handoff THEN [gSent EXCEPT ![i] = Append(gSent[i], r.f)] ELSE gSent
RecvdAfter(i, r) == IF r.ok THEN [gRecvd EXCEPT ![i] = Append(gRecvd[i], r.f)] ELSE gRecvd

\* ------------------------------------- a caller using session 1 directly
Direct == 1

\* TranscodeMem / TranscodeFile: Validate, then the struct with its queue
\* (make panics on a negative depth) and `go session.run()`.
Transcode ==
  /\ crashed = ""
  /\ task.caller.pc = "idle"
  /\ ~sess[Direct].alloc
  /\ \E opt \in OptionSpace :
       LET err == Validate(opt)
       IN  IF err # "nil"
             THEN /\ ret' = [NoRet EXCEPT !.op = "Transcode", !.err = err]
                  /\ UNCHANGED <<sess, crashed>>
           ELSE IF opt.BufferedFrames < 0
             THEN /\ crashed' = "makechan: size out of range"
                  /\ UNCHANGED <<sess, ret>>
           ELSE /\ sess' = [sess EXCEPT ![Direct] = NewSession(opt)]
                /\ ret' = [NoRet EXCEPT !.op = "Transcode"]
                /\ UNCHANGED <<crashed>>
  /\ UNCHANGED <<task, gSent, gRecvd, muxVars>>

\* session.Stop()
Stop ==
  /\ crashed = ""
  /\ task.caller.pc = "idle"
  /\ sess[Direct].alloc
  /\ LET r == StopOn(sess[Direct])
     IN  /\ sess' = [sess EXCEPT ![Direct] = r.s]
         /\ ret' = [NoRet EXCEPT !.op = "Stop", !.err = r.err]
  /\ UNCHANGED <<task, crashed, gSent, gRecvd, muxVars>>

\* session.Error(), lines 480-484: the stored error, under the session lock
SessionError ==
  /\ crashed = ""
  /\ task.caller.pc = "idle"
  /\ sess[Direct].alloc
  /\ ret' = [NoRet EXCEPT !.op = "Error", !.err = sess[Direct].err]
  /\ UNCHANGED <<sess, task, crashed, gSent, gRecvd, muxVars>>

\* session.ReadFrame(): blocks until a frame or the close
ReadFrame ==
  /\ crashed = ""
  /\ task.caller.pc = "idle"
  /\ sess[Direct].alloc
  /\ CanRecv(sess[Direct])
  /\ LET r == RecvOn(sess[Direct])
     IN  /\ sess' = [sess EXCEPT ![Direct] = r.s]
         /\ ret' = [NoRet EXCEPT !.op = "ReadFrame", !.err = IF r.ok THEN "nil" ELSE "EOF",
                                 !.n = Len(r.f), !.data = r.f]
         /\ gSent' = SentAfter(Direct, r)
         /\ gRecvd' = RecvdAfter(Direct, r)
  /\ UNCHANGED <<task, crashed, muxVars>>

\* One step of session.Read(p), lines 457-474, for a slice of plen bytes.
\* "panic": the unread buffer is still nil (run() has not made it).
\* "ret":   the buffer holds plen bytes, or ReadFrame reported the end: the
\*          call returns what CrunchMiniBuffer.Read returns (res).
\* "loop":  a frame was pulled and written to the buffer.
\* "wait":  ReadFrame blocks on an empty, open queue.
ReadStep(s, plen) ==
  LET b == s.unreadBuffer
      r == RecvOn(s)
      none == [ok |-> FALSE, f |-> <<>>, s |-> s, handoff |-> FALSE]
      back(k, s2, rr) == [k |-> k, s |-> s2, r |-> rr, res |-> MiniRead(b, plen)]
      done == [k |-> "ret", s |-> [s EXCEPT !.unreadBuffer = MiniRead(b, plen).b],
               r |-> none, res |-> MiniRead(b, plen)]
  IN  IF b.isNil THEN back("panic", s, none)
      ELSE IF MiniLen(b) >= plen THEN done
      ELSE IF ~CanRecv(s) THEN back("wait", s, none)
      ELSE IF r.ok THEN back("loop", [r.s EXCEPT !.unreadBuffer = MiniWrite(b, r.f).b], r)
      ELSE done

ReadResult(op, res) == [op |-> op, err |-> res.err, n |-> res.n, data |-> res.out]

\* session.Read(p) by the caller: the call, up to its first ReadFrame
Read ==
  /\ crashed = ""
  /\ task.caller.pc = "idle"
  /\ sess[Direct].alloc
  /\ \E plen \in 0..MaxReadLen :
       LET st == ReadStep(sess[Direct], plen)
       IN  /\ st.k # "wait"
           /\ crashed' = IF st.k = "panic" THEN "nil unreadBuffer" ELSE crashed
           /\ sess' = [sess EXCEPT ![Direct] = st.s]
           /\ gSent' = SentAfter(Direct, st.r)
           /\ gRecvd' = RecvdAfter(Direct, st.r)
           /\ ret' = IF st.k = "ret" THEN ReadResult("Read", st.res) ELSE ret
           /\ task' = IF st.k = "loop"
                        THEN [task EXCEPT !.caller.pc = "readLoop", !.caller.want = plen]
                        ELSE task
  /\ UNCHANGED muxVars

\* session.Read(p) by the caller: the later rounds of its loop
ReadLoop ==
  /\ crashed = ""
  /\ task.caller.pc = "readLoop"
  /\ LET st == ReadStep(sess[Direct], task.caller.want)
     IN  /\ st.k \in {"loop", "ret"}
         /\ sess' = [sess EXCEPT ![Direct] = st.s]
         /\ gSent' = SentAfter(Direct, st.r)
         /\ gRecvd' = RecvdAfter(Direct, st.r)
         /\ ret' = IF st.k = "ret" THEN ReadResult("Read", st.res) ELSE ret
         /\ task' = IF st.k = "ret" THEN [task EXCEPT !.caller = IdleTask] ELSE task
  /\ UNCHANGED <<crashed, muxVars>>

\* session.Cleanup(), line 450: session.Stop(), its error dropped
Cleanup ==
  /\ crashed = ""
  /\ task.caller.pc = "idle"
  /\ sess[Direct].alloc
  /\ sess' = [sess EXCEPT ![Direct] = StopOn(sess[Direct]).s]
  /\ task' = [task EXCEPT !.caller.pc = "drain"]
  /\ UNCHANGED <<ret, crashed, gSent, gRecvd, muxVars>>

\* session.Cleanup(), lines 452-454: the queue is read until it is closed
CleanupDrain ==
  /\ crashed = ""
  /\ task.caller.pc = "drain"
  /\ CanRecv(sess[Direct])
  /\ LET r == RecvOn(sess[Direct])
     IN  /\ sess' = [sess EXCEPT ![Direct] = r.s]
         /\ gSent' = SentAfter(Direct, r)
         /\ gRecvd' = RecvdAfter(Direct, r)
         /\ task' = IF r.ok THEN task ELSE [task EXCEPT !.caller.pc = "idle"]
         /\ ret' = IF r.ok THEN ret ELSE [NoRet EXCEPT !.op = "Cleanup"]
  /\ UNCHANGED <<crashed, muxVars>>

NextSession ==
  \/ \E i \in SessIds :
       \/ RunStart(i, Plans)
       \/ ReadStdout(i)
       \/ Send(i)
       \/ ProcExit(i)
       \/ RunWait(i)
       \/ RunClose(i)
       \/ RunDone(i)
  \/ Transcode
  \/ Stop
  \/ SessionError
  \/ ReadFrame
  \/ Read
  \/ ReadLoop
  \/ Cleanup
  \/ CleanupDrain

SessionSpec == InitSession /\ [][NextSession]_vars

\* ================================================================ MuxSession
\* Longest output, in bytes, of the process of a source or of the output session.
MaxSrcOut == 1

\* Sample bytes a source's process writes.
SampleVals == {2}

\* The mixing loop pulls into make([]byte, 1) and decodes a 16-bit sample.
SampleBufLen == 1
SampleWidth == 2

Callbacks == {"nil", "f"}
Volumes == {0, 1}
SourceKinds == {"string", "reader", "other"}

Const(v, n) == [k \in 1..n |-> v]

Plan(ok, out, hangs, fails) == [ok |-> ok, out |-> out, hangs |-> hangs, fails |-> fails]

\* What the environment decides for the process of an engine's session.  The
\* first source's process may fail to start, write a sample and exit, exit
\* with a failure status, or never exit; the second writes a sample and
\* exits; the output session's writes a byte or nothing and exits, or never
\* exits.
MuxPlans(i) ==
  IF i \in FinalIds
    THEN {Plan(TRUE, Const(v, n), FALSE, FALSE) : v \in SampleVals, n \in 0..MaxSrcOut}
           \cup {Plan(TRUE, <<>>, TRUE, FALSE)}
  ELSE IF i = 1
    THEN {Plan(FALSE, <<>>, FALSE, FALSE), Plan(TRUE, <<>>, FALSE, TRUE),
          Plan(TRUE, <<>>, TRUE, FALSE)}
           \cup {Plan(TRUE, Const(v, MaxSrcOut), FALSE, FALSE) : v \in SampleVals}
  ELSE {Plan(TRUE, Const(v, MaxSrcOut), FALSE, FALSE) : v \in SampleVals}

\* The calls the program makes on the engine in one run.
MaxCalls == 3

\* The program makes one more call on the engine.
Call == gCalls < MaxCalls /\ gCalls' = gCalls + 1

engineVars == <<muxOptions, muxTranscoders, finalSession, finalBuffer, muxLock, muxErr, cbCount, gMixed>>

\* The options NewMuxer is given for the output session.
MuxOptionSpace == {RawTranscodeOptions, [RawTranscodeOptions EXCEPT !.Volume = 513]}

\* &MuxTranscoder{...}, lines 117-122
NewMuxTranscoder(sid, id, cb) ==
  [TranscodeSession |-> sid, Identifier |-> id, Volume |-> 1, Callback |-> cb]

Ids(list) == {list[k].Identifier : k \in 1..Len(list)}

\* The index of the first source with the identifier.
Find(list, id) ==
  CHOOSE k \in 1..Len(list) :
    list[k].Identifier = id /\ \A j \in 1..(k - 1) : list[j].Identifier # id

\* SetVolume's loop under the lock: the collection after it, and the error
SetVolumeOn(list, id, v) ==
  IF id \in Ids(list)
    THEN [list |-> [list EXCEPT ![Find(list, id)].Volume = v], err |-> "nil"]
    ELSE [list |-> list, err |-> "invalid identifier"]

\* SetCallback's loop under the lock
SetCallbackOn(list, id, cb) ==
  IF id \in Ids(list)
    THEN [list |-> [list EXCEPT ![Find(list, id)].Callback = cb], err |-> "nil"]
    ELSE [list |-> list, err |-> "invalid identifier"]

\* A RemoveSource that, finding no source with the identifier, removes the
\* last one.
RemoveSourceDropLast(list, id) ==
  IF id \in Ids(list)
    THEN [list |-> SubSeq(list, 1, Find(list, id) - 1)
                     \o SubSeq(list, Find(list, id) + 1, Len(list)),
          err |-> "nil"]
    ELSE [list |-> SubSeq(list, 1, Len(list) - 1), err |-> "invalid identifier"]

\* RemoveSource's loop under the lock
RemoveSourceOn(list, id) ==
  IF id \in Ids(list)
    THEN [list |-> SubSeq(list, 1, Find(list, id) - 1)
                     \o SubSeq(list, Find(list, id) + 1, Len(list)),
          err |-> "nil"]
    ELSE [list |-> list, err |-> "invalid identifier"]

\* A type switch that hands every value that is not a string to TranscodeMem.
SourceConstructorLax(kind) ==
  IF kind = "string" THEN "TranscodeFile" ELSE "TranscodeMem"

\* AddSource's type switch: the constructor for the data, or none
SourceConstructor(kind) ==
  IF kind = "string" THEN "TranscodeFile"
  ELSE IF kind = "reader" THEN "TranscodeMem"
  ELSE "none"

\* Lines 249-258: the sum in an int64, divided (towards zero) by the count
\* and narrowed to an int16.
RECURSIVE SumOf(_)
SumOf(q) == IF q = <<>> THEN 0 ELSE Head(q) + SumOf(Tail(q))

Quot(a, b) == IF a >= 0 THEN a \div b ELSE -((-a) \div b)

ToInt16(x) == ((x + 32768) % 65536) - 32768

MuxedSample(samples) == ToInt16(Quot(SumOf(samples), Len(samples)))

\* Lines 261-263: finalBuffer.Grow(2), WriteU16LENext
AppendSample(b, x) ==
  LET u == x % 65536
  IN  WriteBytesNext(MiniGrow(b, SampleWidth), <<u % 256, u \div 256>>)

\* The unused handle AddSource's next session gets.
FreeHandles == {i \in 1..MaxSources : ~sess[i].alloc}
NextHandle == CHOOSE i \in FreeHandles : \A j \in FreeHandles : i <= j

InitMux ==
  /\ sess = [i \in SessIds |-> NoSession]
  /\ task = [t \in Tasks |-> IdleTask]
  /\ ret = NoRet
  /\ crashed = ""
  /\ gSent = [i \in SessIds |-> <<>>]
  /\ gRecvd = [i \in SessIds |-> <<>>]
  /\ muxOptions \in MuxOptionSpace
  /\ muxTranscoders = <<>>
  /\ finalSession = NilSession
  /\ finalBuffer = NewMiniBuffer(<<>>)
  /\ muxLock = "free"
  /\ muxErr = "nil"
  /\ cbCount = [id \in IdSpace |-> 0]
  /\ gMixed = <<>>
  /\ gCalls = 0

\* ------------------------------------------------ the engine's public API
\* AddSource(data, callback), lines 156-165 and 106-123 / 131-147: the
\* session is made before the engine's lock is asked for.
AddSourceCall(kind, cb) ==
  /\ crashed = ""
  /\ task.caller.pc = "idle"
  /\ IF SourceConstructor(kind) = "none"
       THEN /\ ret' = [NoRet EXCEPT !.op = "AddSource", !.err = "invalid source type"]
            /\ UNCHANGED <<sess, task>>
     ELSE IF Validate(RawTranscodeOptions) # "nil"
       THEN /\ ret' = [NoRet EXCEPT !.op = "AddSource", !.err = Validate(RawTranscodeOptions)]
            /\ UNCHANGED <<sess, task>>
     ELSE /\ FreeHandles # {}
          /\ sess' = [sess EXCEPT ![NextHandle] = NewSession(RawTranscodeOptions)]
          /\ task' = [task EXCEPT !.caller.pc = "addLock", !.caller.idx = NextHandle,
                                  !.caller.arg = cb]
          /\ UNCHANGED ret
  /\ Call
  /\ UNCHANGED <<crashed, gSent, gRecvd, engineVars>>

AddSource == \E kind \in SourceKinds, cb \in Callbacks : AddSourceCall(kind, cb)

\* AddSourceFile / AddSourceMem, lines 124-128 / 149-153: under the lock the
\* source is appended; its identifier is a new random UUID.
AddSourceAppend ==
  /\ crashed = ""
  /\ task.caller.pc = "addLock"
  /\ muxLock = "free"
  /\ muxTranscoders' = Append(muxTranscoders,
                              NewMuxTranscoder(task.caller.idx, task.caller.idx, task.caller.arg))
  /\ ret' = [NoRet EXCEPT !.op = "AddSource", !.n = task.caller.idx]
  /\ task' = [task EXCEPT !.caller = IdleTask]
  /\ UNCHANGED <<sess, crashed, gSent, gRecvd, muxOptions, finalSession, finalBuffer, muxLock, muxErr,
                 cbCount, gMixed, gCalls>>

\* SetVolume(identifier, volume), lines 167-179
SetVolumeCall(id, v) ==
  /\ crashed = ""
  /\ task.caller.pc = "idle"
  /\ muxLock = "free"
  /\ muxTranscoders' = SetVolumeOn(muxTranscoders, id, v).list
  /\ ret' = [NoRet EXCEPT !.op = "SetVolume", !.err = SetVolumeOn(muxTranscoders, id, v).err]
  /\ Call
  /\ UNCHANGED <<sess, task, crashed, gSent, gRecvd, muxOptions, finalSession, finalBuffer, muxLock,
                 muxErr, cbCount, gMixed>>

SetVolume == \E id \in IdSpace, v \in Volumes : SetVolumeCall(id, v)

\* SetCallback(identifier, callback), lines 181-193
SetCallbackCall(id, cb) ==
  /\ crashed = ""
  /\ task.caller.pc = "idle"
  /\ muxLock = "free"
  /\ muxTranscoders' = SetCallbackOn(muxTranscoders, id, cb).list
  /\ ret' = [NoRet EXCEPT !.op = "SetCallback", !.err = SetCallbackOn(muxTranscoders, id, cb).err]
  /\ Call
  /\ UNCHANGED <<sess, task, crashed, gSent, gRecvd, muxOptions, finalSession, finalBuffer, muxLock,
                 muxErr, cbCount, gMixed>>

SetCallback == \E id \in IdSpace, cb \in Callbacks : SetCallbackCall(id, cb)

\* Error(), lines 311-315: under the lock, the engine's error slot
MuxError ==
  /\ crashed = ""
  /\ task.caller.pc = "idle"
  /\ muxLock = "free"
  /\ ret' = [NoRet EXCEPT !.op = "Error", !.err = muxErr]
  /\ Call
  /\ UNCHANGED <<sess, task, crashed, gSent, gRecvd, engineVars>>

\* RemoveSource(identifier), lines 195-207, called by the program
RemoveSourceCall(id) ==
  /\ crashed = ""
  /\ task.caller.pc = "idle"
  /\ muxLock = "free"
  /\ muxTranscoders' = RemoveSourceOn(muxTranscoders, id).list
  /\ ret' = [NoRet EXCEPT !.op = "RemoveSource", !.err = RemoveSourceOn(muxTranscoders, id).err]
  /\ Call
  /\ UNCHANGED <<sess, task, crashed, gSent, gRecvd, muxOptions, finalSession, finalBuffer, muxLock,
                 muxErr, cbCount, gMixed>>

RemoveSource == \E id \in IdSpace : RemoveSourceCall(id)

\* The mixing task the next Start() launches, and the handle of the output
\* session it makes.
NextMixer == IF task.mixer.pc = "idle" THEN "mixer" ELSE "mixer2"
FinalOf(m) == IF m = "mixer" THEN FinalId ELSE FinalId2

\* Start(), lines 210-271: a mixing task is launched first ...
Start ==
  /\ crashed = ""
  /\ task.caller.pc = "idle"
  /\ task[NextMixer].pc = "idle"
  /\ task' = [task EXCEPT ![NextMixer].pc = "cond", !.caller.pc = "startNew",
                          !.caller.idx = FinalOf(NextMixer)]
  /\ Call
  /\ UNCHANGED <<sess, ret, crashed, gSent, gRecvd, engineVars>>

\* Start() on an engine that has not been started before.
FirstStart == task.mixer.pc = "idle" /\ Start

\* ... and then, lines 273-278, an output session is made from the engine's
\* options and stored in finalSession (nil when TranscodeMem fails).
StartTranscode ==
  /\ crashed = ""
  /\ task.caller.pc = "startNew"
  /\ LET err == Validate(muxOptions)
         new == task.caller.idx
     IN  /\ sess' = IF err = "nil" /\ muxOptions.BufferedFrames >= 0
                      THEN [sess EXCEPT ![new] = NewSession(muxOptions)] ELSE sess
         /\ finalSession' = IF err # "nil" THEN NilSession
                            ELSE IF muxOptions.BufferedFrames >= 0 THEN new
                            ELSE finalSession
         /\ crashed' = IF err = "nil" /\ muxOptions.BufferedFrames < 0
                         THEN "makechan: size out of range" ELSE crashed
         /\ ret' = [NoRet EXCEPT !.op = "Start", !.err = err]
  /\ task' = [task EXCEPT !.caller = IdleTask]
  /\ UNCHANGED <<gSent, gRecvd, muxOptions, muxTranscoders, finalBuffer, muxLock, muxErr,
                 cbCount, gMixed, gCalls>>

\* The session finalSession points to (for nil, a session that is none), and
\* the sessions after that one has become s.
FinalSess == IF finalSession = NilSession THEN NoSession ELSE sess[finalSession]
FinalHandle == IF finalSession = NilSession THEN FinalId ELSE finalSession
WithFinal(s) == IF finalSession = NilSession THEN sess ELSE [sess EXCEPT ![finalSession] = s]

\* One step of MuxSession.Read(p), lines 281-295: finalBuffer serves the
\* call when it holds len(p) bytes; else frames of the output session are
\* written to finalBuffer until it does or ReadFrame fails.  The engine's
\* lock is not taken.
MuxReadStep(plen) ==
  LET b == finalBuffer
      s == FinalSess
      r == RecvOn(s)
      none == [ok |-> FALSE, f |-> <<>>, s |-> s, handoff |-> FALSE]
      done == [k |-> "ret", b |-> MiniRead(b, plen).b, r |-> none, res |-> MiniRead(b, plen)]
  IN  IF MiniLen(b) >= plen THEN done
      ELSE IF ~s.alloc THEN [k |-> "panic", b |-> b, r |-> none, res |-> MiniRead(b, plen)]
      ELSE IF ~CanRecv(s) THEN [k |-> "wait", b |-> b, r |-> none, res |-> MiniRead(b, plen)]
      ELSE IF r.ok THEN [k |-> "loop", b |-> MiniWrite(b, r.f).b, r |-> r, res |-> MiniRead(b, plen)]
      ELSE done

MuxReadApply(st, plen) ==
  /\ st.k # "wait"
  /\ crashed' = IF st.k = "panic" THEN "Read: nil finalSession" ELSE crashed
  /\ finalBuffer' = st.b
  /\ sess' = WithFinal(st.r.s)
  /\ gSent' = SentAfter(FinalHandle, st.r)
  /\ gRecvd' = RecvdAfter(FinalHandle, st.r)
  /\ ret' = IF st.k = "ret" THEN ReadResult("MuxRead", st.res) ELSE ret
  /\ task' = IF st.k = "loop"
               THEN [task EXCEPT !.caller.pc = "muxReadLoop", !.caller.want = plen]
               ELSE [task EXCEPT !.caller = IdleTask]
  /\ UNCHANGED <<muxOptions, muxTranscoders, finalSession, muxLock, muxErr, cbCount, gMixed>>

MuxRead ==
  /\ crashed = ""
  /\ task.caller.pc = "idle"
  /\ \E plen \in 0..MaxReadLen : MuxReadApply(MuxReadStep(plen), plen)
  /\ Call

MuxReadLoop ==
  /\ crashed = ""
  /\ task.caller.pc = "muxReadLoop"
  /\ MuxReadApply(MuxReadStep(task.caller.want), task.caller.want)
  /\ UNCHANGED gCalls

\* MuxSession.Cleanup() by task t (the program, or the mixing task when its
\* loop has ended), lines 298-300: the lock, then finalSession.Cleanup(),
\* whose first act is finalSession.Stop().
CleanupEntry(t) == IF t = "caller" THEN "idle" ELSE "exit"
CleanupExit(t) == IF t = "caller" THEN "idle" ELSE "done"

MuxCleanup(t) ==
  /\ crashed = ""
  /\ task[t].pc = CleanupEntry(t)
  /\ muxLock = "free"
  /\ IF finalSession # NilSession
       THEN /\ sess' = WithFinal(StopOn(FinalSess).s)
            /\ muxLock' = t
            /\ task' = [task EXCEPT ![t].pc = "cleanFinal", ![t].idx = 0,
                                    ![t].want = finalSession]
            /\ UNCHANGED crashed
       ELSE /\ crashed' = "Cleanup: nil finalSession"
            /\ UNCHANGED <<sess, muxLock, task>>
  /\ IF t = "caller" THEN Call ELSE UNCHANGED gCalls
  /\ UNCHANGED <<ret, gSent, gRecvd, muxOptions, muxTranscoders, finalSession, finalBuffer, muxErr,
                 cbCount, gMixed>>

\* MuxSession.Cleanup(), lines 300-308: the session being cleaned up is
\* drained until its queue is closed; then the next source's session is
\* stopped and drained; after the last the collection is replaced by an
\* empty one and the lock released.
MuxCleanupDrain(t) ==
  /\ crashed = ""
  /\ task[t].pc \in {"cleanFinal", "cleanSrc"}
  /\ LET sid == IF task[t].pc = "cleanFinal" THEN task[t].want
                ELSE muxTranscoders[task[t].idx].TranscodeSession
         r == RecvOn(sess[sid])
         next == task[t].idx + 1
         nsid == muxTranscoders[next].TranscodeSession
     IN  /\ CanRecv(sess[sid])
         /\ gSent' = SentAfter(sid, r)
         /\ gRecvd' = RecvdAfter(sid, r)
         /\ IF r.ok
              THEN /\ sess' = [sess EXCEPT ![sid] = r.s]
                   /\ UNCHANGED <<task, muxTranscoders, muxLock, ret>>
            ELSE IF next <= Len(muxTranscoders)
              THEN /\ sess' = [sess EXCEPT ![nsid] = StopOn(sess[nsid]).s]
                   /\ task' = [task EXCEPT ![t].pc = "cleanSrc", ![t].idx = next]
                   /\ UNCHANGED <<muxTranscoders, muxLock, ret>>
            ELSE /\ muxTranscoders' = <<>>
                 /\ muxLock' = "free"
                 /\ task' = [task EXCEPT ![t] = [IdleTask EXCEPT !.pc = CleanupExit(t)]]
                 /\ ret' = IF t = "caller" THEN [NoRet EXCEPT !.op = "MuxCleanup"] ELSE ret
                 /\ UNCHANGED sess
  /\ UNCHANGED <<crashed, muxOptions, finalSession, finalBuffer, muxErr, cbCount, gMixed, gCalls>>

\* -------------------------------------------------------- the mixing task
\* Line 211: the loop condition, read without the lock
MixCond(m) ==
  /\ crashed = ""
  /\ task[m].pc = "cond"
  /\ task' = [task EXCEPT ![m].pc = IF Len(muxTranscoders) > 0 THEN "lock" ELSE "exit"]
  /\ UNCHANGED <<sess, ret, crashed, gSent, gRecvd, muxVars>>

\* Lines 212-216: the lock is taken and the range over the collection
\* begins (over an empty collection it ends at once: line 243 releases the
\* lock and line 246 continues).
MixLock(m) ==
  /\ crashed = ""
  /\ task[m].pc = "lock"
  /\ muxLock = "free"
  /\ IF Len(muxTranscoders) > 0
       THEN /\ muxLock' = m
            /\ task' = [task EXCEPT ![m].pc = "poll", ![m].idx = 1,
                                    ![m].samples = <<>>]
       ELSE /\ task' = [task EXCEPT ![m].pc = "cond"]
            /\ UNCHANGED muxLock
  /\ UNCHANGED <<sess, ret, crashed, gSent, gRecvd, muxOptions, muxTranscoders, finalSession, finalBuffer,
                 muxErr, cbCount, gMixed, gCalls>>

\* muxer.RemoveSource(id) called by the mixing task inside its range loop,
\* lines 219 and 231: RemoveSource locks the engine's mutex, which the
\* mixing task has held since line 212; sync.Mutex is not reentrant, and no
\* other task unlocks it, so the call never returns.  The position of the
\* mixing task after the call.
RemoveSourceInLoop(holder, m) == IF holder = m THEN "blocked" ELSE "removed"

\* Lines 217-223: a source whose session has an error has it recorded on
\* the engine and is handed to RemoveSource; the others are pulled.
MixPoll(m) ==
  /\ crashed = ""
  /\ task[m].pc = "poll"
  /\ LET src == muxTranscoders[task[m].idx]
         err == sess[src.TranscodeSession].err
     IN  IF err # "nil"
           THEN /\ muxErr' = err
                /\ task' = [task EXCEPT ![m].pc = RemoveSourceInLoop(muxLock, m)]
           ELSE /\ task' = [task EXCEPT ![m].pc = "pull"]
                /\ UNCHANGED muxErr
  /\ UNCHANGED <<sess, ret, crashed, gSent, gRecvd, muxOptions, muxTranscoders, finalSession, finalBuffer,
                 muxLock, cbCount, gMixed, gCalls>>

\* What the mixing task does with a pull's result (n, err), lines 226-240.
\* "eof":    the callback is launched and RemoveSource called
\* "skip":   n is not 1: the next source
\* "decode": binary.LittleEndian.Uint16 of the one-byte slice
PullOutcome(res) ==
  IF res.err = "EOF" THEN "eof"
  ELSE IF res.n # 1 THEN "skip"
  ELSE "decode"

\* binary.LittleEndian.Uint16(sample) reads sample[1]: the sample decoded
\* from a slice of that many bytes, or the panic
DecodeSample(bytes) ==
  IF Len(bytes) < SampleWidth THEN [ok |-> FALSE, v |-> 0]
  ELSE [ok |-> TRUE, v |-> ToInt16(bytes[1] + 256 * bytes[2])]

\* The mixing task after its range loop, lines 243-268: the lock is
\* released; with samples their mean is appended to finalBuffer.
AfterRange(m, samples) ==
  /\ muxLock' = "free"
  /\ task' = [task EXCEPT ![m] = [IdleTask EXCEPT !.pc = "cond"]]
  /\ finalBuffer' = IF samples = <<>> THEN finalBuffer
                    ELSE AppendSample(finalBuffer, MuxedSample(samples))
  /\ gMixed' = IF samples = <<>> THEN gMixed ELSE Append(gMixed, MuxedSample(samples))

\* The mixing task goes on to the next source of its range, or ends it.
NextSource(m, samples) ==
  IF task[m].idx < Len(muxTranscoders)
    THEN /\ task' = [task EXCEPT ![m].pc = "poll", ![m].idx = task[m].idx + 1,
                                 ![m].samples = samples]
         /\ UNCHANGED <<muxLock, finalBuffer, gMixed>>
    ELSE AfterRange(m, samples)

\* Lines 223-240: one step of the pull, TranscodeSession.Read(sample), and
\* what follows its return.
MixPull(m) ==
  /\ crashed = ""
  /\ task[m].pc = "pull"
  /\ LET src == muxTranscoders[task[m].idx]
         sid == src.TranscodeSession
         st  == ReadStep(sess[sid], SampleBufLen)
         out == PullOutcome(st.res)
         dec == DecodeSample(st.res.out)
     IN  /\ st.k # "wait"
         /\ sess' = [sess EXCEPT ![sid] = st.s]
         /\ gSent' = SentAfter(sid, st.r)
         /\ gRecvd' = RecvdAfter(sid, st.r)
         /\ crashed' = IF st.k = "panic" THEN "nil unreadBuffer"
                       ELSE IF st.k = "ret" /\ out = "decode" /\ ~dec.ok
                         THEN "index out of range"
                       ELSE crashed
         /\ cbCount' = IF st.k = "ret" /\ out = "eof" /\ src.Callback # "nil"
                         THEN [cbCount EXCEPT ![src.Identifier] = @ + 1] ELSE cbCount
         /\ IF st.k = "ret" /\ out = "eof"
              THEN /\ task' = [task EXCEPT ![m].pc = RemoveSourceInLoop(muxLock, m)]
                   /\ UNCHANGED <<muxLock, finalBuffer, gMixed>>
            ELSE IF st.k = "ret" /\ out = "skip"
              THEN NextSource(m, task[m].samples)
            ELSE IF st.k = "ret" /\ out = "decode" /\ dec.ok
              THEN NextSource(m, Append(task[m].samples, dec.v))
            ELSE UNCHANGED <<task, muxLock, finalBuffer, gMixed>>
  /\ UNCHANGED <<ret, muxOptions, muxTranscoders, finalSession, muxErr, gCalls>>

NextMux ==
  \/ \E i \in SessIds :
       \/ RunStart(i, MuxPlans(i))
       \/ ReadStdout(i)
       \/ Send(i)
       \/ ProcExit(i)
       \/ RunWait(i)
       \/ RunClose(i)
       \/ RunDone(i)
  \/ AddSource
  \/ AddSourceAppend
  \/ SetVolume
  \/ SetCallback
  \/ RemoveSource
  \/ MuxError
  \/ FirstStart
  \/ StartTranscode
  \/ MuxRead
  \/ MuxReadLoop
  \/ \E t \in Tasks : MuxCleanup(t) \/ MuxCleanupDrain(t)
  \/ \E m \in Mixers :
       \/ MixCond(m)
       \/ MixLock(m)
       \/ MixPoll(m)
       \/ MixPull(m)

Spec == InitMux /\ [][NextMux]_vars

\* The engine of a program that adds no source, may call Start() again, and
\* cleans up.
NextStart ==
  \/ \E i \in SessIds :
       \/ RunStart(i, MuxPlans(i))
       \/ ReadStdout(i)
       \/ Send(i)
       \/ ProcExit(i)
       \/ RunWait(i)
       \/ RunClose(i)
       \/ RunDone(i)
  \/ Start
  \/ StartTranscode
  \/ \E t \in Tasks : MuxCleanup(t) \/ MuxCleanupDrain(t)
  \/ \E m \in Mixers : MixCond(m)

StartSpec == InitMux /\ [][NextStart]_vars

\* The mixing step on its own, lines 243-263, as a function of what the
\* range loop hands it: an iteration in which every source of the
\* collection has yielded a sample, at the point where the range loop has
\* ended and the lock is about to be released.
MixSampleVals == {-3, 2, 5}

SeqsOf(S, n) == [1..n -> S]

MixSource(k, v) == [NewMuxTranscoder(k, k, "nil") EXCEPT !.Volume = v]

InitMix ==
  /\ \E n \in 1..MaxSources :
       /\ \E vols \in SeqsOf(Volumes, n) :
            muxTranscoders = [k \in 1..n |-> MixSource(k, vols[k])]
       /\ \E samples \in SeqsOf(MixSampleVals, n) :
            task = [t \in Tasks |->
                      IF t = "mixer" THEN [IdleTask EXCEPT !.pc = "mean", !.idx = n,
                                                           !.samples = samples]
                      ELSE IdleTask]
       /\ sess = [i \in SessIds |->
                    IF i \in 1..n
                      THEN RunStartOn(NewSession(RawTranscodeOptions),
                                      Plan(TRUE, <<>>, TRUE, FALSE))
                      ELSE NoSession]
  /\ ret = NoRet
  /\ crashed = ""
  /\ gSent = [i \in SessIds |-> <<>>]
  /\ gRecvd = [i \in SessIds |-> <<>>]
  /\ muxOptions \in MuxOptionSpace
  /\ finalSession = NilSession
  /\ finalBuffer = NewMiniBuffer(<<>>)
  /\ muxLock = "mixer"
  /\ muxErr = "nil"
  /\ cbCount = [id \in IdSpace |-> 0]
  /\ gMixed = <<>>
  /\ gCalls = 0

\* Lines 243-263 with the samples of the range loop that has just ended
MixMean(m) ==
  /\ crashed = ""
  /\ task[m].pc = "mean"
  /\ AfterRange(m, task[m].samples)
  /\ UNCHANGED <<sess, ret, crashed, gSent, gRecvd, muxOptions, muxTranscoders, finalSession,
                 muxErr, cbCount, gCalls>>

NextMix ==
  \/ SetVolume
  \/ \E m \in Mixers : MixMean(m)

MixSpec == InitMix /\ [][NextMix]_vars

\* ================================================================ claims

\* ----------------------------------------------------------------- C1
QueueFull(s) == s.alloc /\ Len(s.frameChannel) >= Cap(s)
Parked(s) == s.pc = "send" /\ QueueFull(s)

C1_Inv ==
  \A i \in SessIds :
    sess[i].alloc =>
      /\ Len(sess[i].frameChannel) <= Cap(sess[i])
      /\ gSent[i] = gRecvd[i] \o sess[i].frameChannel

C1_Blocks ==
  \A i \in SessIds :
    Parked(sess[i]) =>
      \/ sess'[i].pc = "send" /\ sess'[i].frame = sess[i].frame /\ gSent'[i] = gSent[i]
      \/ Cap(sess[i]) = 0 /\ gRecvd'[i] = Append(gRecvd[i], sess[i].frame)

\* C1: the frame queue of a session never holds more frames than
\* BufferedFrames, every frame put on it is either still queued or was taken
\* by a reader, in order (none dropped, none overwritten), and a reader that
\* finds the queue full keeps its frame and stays at the enqueue step until
\* a receive makes room (or, for depth 0, takes the frame from its hands).
C1_QueueBounded == []C1_Inv /\ [][C1_Blocks]_vars

\* C1 witness: a full queue of depth >= 1 with the producer parked on it.
C1_Witness ==
  /\ Cap(sess[Direct]) >= 1
  /\ Parked(sess[Direct])
  /\ sess[Direct].frame # <<>>

\* ----------------------------------------------------------------- C5
\* C5: Cleanup() terminates from every state (while it drains, some step of
\* the session is always possible), and once it has returned the owned
\* process is not running and the frame queue is closed and empty.
C5_CleanupTerminates ==
  /\ task.caller.pc = "drain" => ENABLED NextSession
  /\ (task.caller.pc = "idle" /\ ret.op = "Cleanup") =>
       /\ sess[Direct].proc.st # "alive"
       /\ sess[Direct].closed
       /\ sess[Direct].frameChannel = <<>>

\* ----------------------------------------------------------------- C9
\* C9: a session exists (its run task started, its process spawned) only
\* for options whose numeric fields all lie in their documented ranges.
C9_OutOfRangeRejected ==
  \A i \in SessIds : sess[i].alloc => InDocumentedRange(sess[i].options)

\* ----------------------------------------------------------------- C2
\* A session whose Read reports end-of-stream: its queue is closed and empty.
AtEOS(s) == s.alloc /\ s.closed /\ s.frameChannel = <<>>

\* The process of a source writes its output and exits by itself.
Finite(s) == s.alloc /\ s.process = "set" /\ ~s.proc.hangs /\ ~s.proc.fails

\* The mixing task has been launched and has not ended.
MixerRunning == \E m \in Mixers : task[m].pc \notin {"idle", "done"}

\* The mixing task waits for a lock it holds itself: no step releases it.
MixerDeadlocked == \E m \in Mixers : task[m].pc = "blocked" /\ muxLock = m

\* C2: the callback of a source is launched at most once and only for a
\* source whose session is at end-of-stream; and a source with a callback
\* whose process has ended by itself and whose queue has been closed, under
\* a running mixing task, has had its callback launched or can still get it
\* (the mixing task is not stuck for good).
C2_CallbackExactlyOnce ==
  \A k \in 1..Len(muxTranscoders) :
    LET src == muxTranscoders[k]
        s == sess[src.TranscodeSession]
    IN  /\ cbCount[src.Identifier] <= 1
        /\ cbCount[src.Identifier] = 1 => AtEOS(s)
        /\ (src.Callback # "nil" /\ Finite(s) /\ s.closed /\ MixerRunning /\ crashed = "")
             => (cbCount[src.Identifier] = 1 \/ ~MixerDeadlocked)

\* ----------------------------------------------------------------- C3
\* A Read of the mixing task has written a frame of the source into the
\* session's unread buffer: the source has delivered its sample.
Delivered(src) == sess[src.TranscodeSession].unreadBuffer.buf # <<>>

\* The 16-bit value of the first sample a source's process wrote.
SourceValue(src) == ToInt16(Head(gSent[src.TranscodeSession])[1])

\* C3: every appended sample is the mean of the sources' values and lies in
\* the 16-bit range, and once every source of the collection has delivered
\* its sample and the mixing task is past its pulls, a sample has been
\* appended.
C3_MixIsMean ==
  LET n == Len(muxTranscoders)
      values == [k \in 1..n |-> SourceValue(muxTranscoders[k])]
  IN  (/\ n >= 1
       /\ \A k \in 1..n : Delivered(muxTranscoders[k]) /\ muxTranscoders[k].Volume = 1
       /\ MixerRunning
       /\ \A m \in Mixers : task[m].pc \in {"idle", "done", "cond", "lock", "blocked"}
       /\ crashed = "")
        => /\ gMixed # <<>>
           /\ \A j \in 1..Len(gMixed) :
                gMixed[j] = MuxedSample(values) /\ gMixed[j] \in -32768..32767

\* ----------------------------------------------------------------- C4
\* C4: with one source, finite and with a callback, the mixing task never
\* deadlocks, and when the engine's Read has reported end-of-stream the
\* callback has been launched exactly once.
C4_ReadReachesEOS ==
  (/\ Len(muxTranscoders) = 1
   /\ muxTranscoders[1].Callback # "nil"
   /\ Finite(sess[muxTranscoders[1].TranscodeSession])
   /\ crashed = "")
    => /\ ~MixerDeadlocked
       /\ (ret.op = "MuxRead" /\ ret.err = "EOF" /\ MixerRunning)
            => cbCount[muxTranscoders[1].Identifier] = 1

\* ----------------------------------------------------------------- C6
\* C6: MuxSession.Cleanup() does not fault in any engine state, and when it
\* has returned the collection is empty and the output session's process is
\* not running.
C6_CleanupSafe ==
  /\ crashed # "Cleanup: nil finalSession"
  /\ (ret.op = "MuxCleanup" /\ task.caller.pc = "idle")
       => /\ muxTranscoders = <<>>
          /\ FinalSess.proc.st # "alive"

\* ----------------------------------------------------------------- C7
\* What a call that finds no source leaves as it was.
EngineUnchanged ==
  UNCHANGED <<muxTranscoders, sess, muxOptions, finalBuffer, muxErr, cbCount, gMixed>>

UnknownIdStep(id) ==
  /\ (\E v \in Volumes : SetVolumeCall(id, v)) =>
       (ret'.op = "SetVolume" /\ ret'.err = "invalid identifier" /\ EngineUnchanged)
  /\ (\E cb \in Callbacks : SetCallbackCall(id, cb)) =>
       (ret'.op = "SetCallback" /\ ret'.err = "invalid identifier" /\ EngineUnchanged)
  /\ RemoveSourceCall(id) =>
       (ret'.op = "RemoveSource" /\ ret'.err = "invalid identifier" /\ EngineUnchanged)

\* C7: SetVolume, SetCallback and RemoveSource with an identifier no source
\* of the collection has return "invalid identifier" and change neither the
\* collection (its sources, their order, volumes and callbacks) nor any
\* other state of the engine.
C7_UnknownIdRejected ==
  [][\A id \in IdSpace : id \notin Ids(muxTranscoders) => UnknownIdStep(id)]_vars

\* C7 witness: RemoveSource has returned not-found on a full collection.
C7_Witness ==
  /\ ret.op = "RemoveSource"
  /\ ret.err = "invalid identifier"
  /\ Len(muxTranscoders) = MaxSources

\* ----------------------------------------------------------------- C8
\* AddSource with data that is neither a string nor a reader.
InvalidSourceStep ==
  \A kind \in SourceKinds \ {"string", "reader"}, cb \in Callbacks :
    AddSourceCall(kind, cb) =>
      /\ ret'.op = "AddSource"
      /\ ret'.err = "invalid source type"
      /\ UNCHANGED <<sess, muxTranscoders, task>>

\* The return of a successful AddSource.
AddedStep ==
  AddSourceAppend =>
    LET n == Len(muxTranscoders)
        new == muxTranscoders'[n + 1]
    IN  /\ Len(muxTranscoders') = n + 1
        /\ SubSeq(muxTranscoders', 1, n) = muxTranscoders
        /\ new.Volume = 1
        /\ new.Identifier \notin Ids(muxTranscoders)
        /\ cbCount[new.Identifier] = 0
        /\ ret'.op = "AddSource" /\ ret'.err = "nil" /\ ret'.n = new.Identifier

\* C8: AddSource with a value that is neither a string nor a reader returns
\* "invalid source type", makes no session and leaves the collection as it
\* was; a successful AddSource appends exactly one source, with volume 1 and
\* an identifier no source of the collection has, at the end.
C8_AddSource == [][InvalidSourceStep /\ AddedStep]_vars

\* C8 witness: AddSource has returned the identifier of the source it
\* appended last in a full collection.
C8_Witness ==
  /\ Len(muxTranscoders) = MaxSources
  /\ ret.op = "AddSource"
  /\ ret.err = "nil"
  /\ ret.n = muxTranscoders[MaxSources].Identifier

\* ---------------------------------------------------------------- C10
\* C10: once the error of a source's session is recorded on the engine the
\* mixing task keeps running (it is not stuck for good), and outside its
\* iteration over the sources no source with that error is in the
\* collection.
C10_FailureIsolation ==
  muxErr # "nil" =>
    /\ ~MixerDeadlocked
    /\ (\E m \in Mixers : task[m].pc = "cond") =>
         \A k \in 1..Len(muxTranscoders) :
           sess[muxTranscoders[k].TranscodeSession].err # muxErr

\* ---------------------------------------------------------------- C11
\* The mixing task has read the session of a source to its end: the process
\* ended by itself, the queue is closed and empty, and its frames went
\* through the unread buffer.
ReadToEnd(s) == Finite(s) /\ AtEOS(s) /\ s.unreadBuffer.buf # <<>>

\* C11: when a source has been read to its end while another source of the
\* collection is still producing (its queue is open), the mixing task is
\* not blocked for good on the engine's lock, and between two iterations
\* the ended source is no longer in the collection.
C11_LoopSurvivesEOS ==
  \A k \in 1..Len(muxTranscoders) :
    (/\ crashed = ""
     /\ MixerRunning
     /\ ReadToEnd(sess[muxTranscoders[k].TranscodeSession])
     /\ \E j \in 1..Len(muxTranscoders) :
          j # k /\ ~sess[muxTranscoders[j].TranscodeSession].closed)
      => /\ ~MixerDeadlocked
         /\ \A m \in Mixers : task[m].pc # "cond"

\* ---------------------------------------------------------------- C12
\* The mixing tasks launched and the output sessions made so far.
Launched == {m \in Mixers : task[m].pc # "idle"}
OutputSessions == {i \in FinalIds : sess[i].alloc}

\* C12: however often Start() is called, at most one mixing task has been
\* launched and at most one output session has been made.
C12_StartIdempotent ==
  /\ Cardinality(Launched) <= 1
  /\ Cardinality(OutputSessions) <= 1
\* ---------------------------------------------------------------- C13
\* Mixing task m holds the engine's lock in a pull that waits on the empty,
\* open queue of a source whose process neither writes nor exits.
PullBlockedUnderLock(m) ==
  /\ task[m].pc = "pull"
  /\ muxLock = m
  /\ LET s == sess[muxTranscoders[task[m].idx].TranscodeSession]
     IN  /\ ReadStep(s, SampleBufLen).k = "wait"
         /\ s.proc.st = "alive" /\ s.proc.hangs /\ s.proc.out = <<>>

\* C13: a mutator that waits for the engine's lock (AddSource about to
\* append) never finds it held by a mixing task that is itself waiting, in
\* a pull, for a frame that will not come.
C13_MutatorsReturn ==
  ~(task.caller.pc = "addLock" /\ \E m \in Mixers : PullBlockedUnderLock(m))

\* ------------------------------------------------------------------ C14
IsPrefix(a, b) == Len(a) <= Len(b) /\ SubSeq(b, 1, Len(a)) = a

\* The readers of session i have received, in order, the first frames the
\* frame-assembly reader enqueued; a ReadFrame that reported the end did so
\* on a closed queue with every enqueued frame already received.
C14_Inv ==
  /\ \A i \in SessIds : IsPrefix(gRecvd[i], gSent[i])
  /\ (ret.op = "ReadFrame" /\ ret.err = "EOF") =>
       /\ sess[Direct].closed
       /\ sess[Direct].frameChannel = <<>>
       /\ gRecvd[Direct] = gSent[Direct]

\* A ReadFrame that returns a frame returns the oldest enqueued frame not
\* yet received, and that frame alone joins the received ones.
C14_Step ==
  (ret' # ret /\ ret'.op = "ReadFrame" /\ ret'.err = "nil") =>
     /\ Len(gSent'[Direct]) > Len(gRecvd[Direct])
     /\ ret'.data = gSent'[Direct][Len(gRecvd[Direct]) + 1]
     /\ gRecvd'[Direct] = Append(gRecvd[Direct], ret'.data)

\* C14: ReadFrame delivers frames in exactly the order readStdout enqueued
\* them: the frames returned to readers are a prefix of the frames produced
\* (none reordered, duplicated or skipped), and end-of-stream is returned
\* only after every already-queued frame has been delivered.
C14_FifoDelivery == []C14_Inv /\ [][C14_Step]_vars

\* C14 witness: ReadFrame reported the end after at least two different
\* frames were enqueued and received.
C14_Witness ==
  /\ ret.op = "ReadFrame" /\ ret.err = "EOF"
  /\ Len(gRecvd[Direct]) >= 2
  /\ gRecvd[Direct][1] # gRecvd[Direct][2]

\* ------------------------------------------------------------------ C15
\* Error() can never return: its Lock() waits for a mixing task that holds
\* the lock and is itself blocked for good.
ErrorBlockedForever == \E m \in Mixers : muxLock = m /\ task[m].pc = "blocked"

\* C15: MuxSession.Error() returns nil until the mixing loop records an
\* error and from then on returns the first error recorded: once the error
\* slot is non-nil a call of Error() returns that error, so it is never left
\* waiting for good on the lock.
C15_ErrorReturnsFirst == muxErr # "nil" => ~ErrorBlockedForever

\* ------------------------------------------------------------------ C16
\* A step that takes a frame from the output session.
OutputFrameTaken ==
  finalSession # NilSession /\ gRecvd'[finalSession] # gRecvd[finalSession]

\* C16: the engine is a two-stage pipeline: the buffer the mixing loop
\* appends to feeds the output session only, and Read returns output-session
\* bytes only: no step that takes a frame from the output session writes it
\* into finalBuffer, the buffer the output session was given as its input.
C16_TwoStage == [][OutputFrameTaken => finalBuffer' = finalBuffer]_vars

\* ------------------------------------------------------------------ C17
\* A step that writes the mixed-sample buffer while a mixing task holds the
\* lock is a step of that mixing task.
BufferWriteExclusive ==
  (finalBuffer' # finalBuffer /\ muxLock \in Mixers) => task'[muxLock] # task[muxLock]

\* C17: every read and write of the source collection and of the
\* mixed-sample buffer happens while holding the engine's lock, so no two
\* tasks access them at the same time: while a mixing task holds the lock no
\* other task writes finalBuffer.
C17_AccessUnderLock == [][BufferWriteExclusive]_vars

\* ------------------------------------------------------------------ C18
\* The handles of the sessions of the sources in a collection.
SourceSessions(list) == {list[k].TranscodeSession : k \in 1..Len(list)}

\* A source session that leaves the collection in a step is stopped by it:
\* its process no longer runs.
RemovedIsDestroyed ==
  \A i \in SourceSessions(muxTranscoders) \ SourceSessions(muxTranscoders') :
    sess'[i].proc.st # "alive"

\* C18: whenever a source leaves the engine's collection (RemoveSource, the
\* mixing loop on end-of-stream or on a session error, or Cleanup), its
\* Transcode Session is destroyed: its process is killed and its frame queue
\* drained, so that no process of a removed source keeps running.
C18_RemovedDestroyed == [][RemovedIsDestroyed]_vars

\* ------------------------------------------------------------------ C19
\* run() is past ffmpeg.Wait(): the session has stopped or is stopping.
Waited(s) == s.pc \in {"close", "defer", "done"}

C19_Inv ==
  \A i \in SessIds :
    /\ sess[i].proc.st = "killed" => sess[i].err = "nil"
    /\ (Waited(sess[i]) /\ sess[i].proc.st = "exited" /\ sess[i].proc.fails)
         => sess[i].err = "exit status 1"
    /\ (Waited(sess[i]) /\ sess[i].proc.st = "exited" /\ ~sess[i].proc.fails)
         => sess[i].err = "nil"

\* Error() returns the stored error.
C19_Step == (ret' # ret /\ ret'.op = "Error") => ret'.err = sess[Direct].err

\* C19: when the process of a running session ends because Stop() killed it
\* the session's stored error stays nil, and Error() returns nil after the
\* session has stopped; a non-zero exit that Stop() did not cause is stored
\* and returned by Error().
C19_KillLeavesErrorNil == []C19_Inv /\ [][C19_Step]_vars

\* C19 witness: the process of a session that would have exited with a
\* non-zero status was killed by Stop(), run() has returned, and Error()
\* has returned nil.
C19_Witness ==
  /\ sess[Direct].proc.st = "killed" /\ sess[Direct].proc.fails
  /\ sess[Direct].pc = "done"
  /\ ret.op = "Error" /\ ret.err = "nil"

\* ------------------------------------------------------------------ C20
\* run() has returned without ever registering a process: the spawn or
\* one of its pipes failed.
SpawnFailed(s) == s.alloc /\ s.pc = "done" /\ s.process = "nil"

\* C20: a session whose external process cannot be spawned ends Failed:
\* its frame queue is closed with no frame ever enqueued, so ReadFrame
\* returns end-of-stream instead of blocking, and the triggering error is
\* stored for Error() to return (non-nil).
C20_SpawnFailureReported ==
  \A i \in SessIds :
    SpawnFailed(sess[i]) =>
      /\ sess[i].closed
      /\ gSent[i] = <<>>
      /\ CanRecv(sess[i]) /\ ~RecvOn(sess[i]).ok
      /\ sess[i].err # "nil"

\* ------------------------------------------------------------------ C21
\* The queue of s is empty and open and no sender stands at it.
EmptyOpen(s) == s.frameChannel = <<>> /\ ~s.closed /\ ~(s.pc = "send" /\ Cap(s) = 0)

\* No frame assembled, queued or delivered has zero bytes, and ReadFrame
\* can return exactly when the queue is not empty and open.
C21_Inv ==
  /\ \A i \in SessIds :
       /\ \A k \in 1..Len(gSent[i]) : Len(gSent[i][k]) > 0
       /\ \A k \in 1..Len(sess[i].frameChannel) : Len(sess[i].frameChannel[k]) > 0
       /\ sess[i].pc = "send" => Len(sess[i].frame) > 0
  /\ (crashed = "" /\ task.caller.pc = "idle" /\ sess[Direct].alloc) =>
       (ENABLED ReadFrame <=> ~EmptyOpen(sess[Direct]))

\* A ReadFrame that returns reports the end exactly on a closed, empty
\* queue, and otherwise returns a frame of at least one byte.
C21_Step ==
  (ret' # ret /\ ret'.op = "ReadFrame") =>
     /\ ret'.err = "EOF" <=> (sess[Direct].closed /\ sess[Direct].frameChannel = <<>>)
     /\ ret'.err = "nil" => Len(ret'.data) > 0

\* C21: ReadFrame blocks while the frame queue is empty and open, returns a
\* frame as soon as one is queued, returns end-of-stream exactly when the
\* queue is closed and empty, and never returns a zero-length frame as data
\* (readStdout never enqueues one).
C21_ReadFrameContract == []C21_Inv /\ [][C21_Step]_vars

\* C21 witness: ReadFrame has returned a frame and the queue is now empty
\* and open with the producer still reading, so the next ReadFrame blocks.
C21_Witness ==
  /\ ret.op = "ReadFrame" /\ ret.err = "nil" /\ Len(ret.data) > 0
  /\ sess[Direct].proc.st = "alive"
  /\ EmptyOpen(sess[Direct])

\* ------------------------------------------------------------------ C22
\* The caller's Read(p), which has pulled at least one frame into the
\* unread buffer, returns in this step.
ReadReturnsAfterPull == task.caller.pc = "readLoop" /\ task'.caller.pc = "idle"

\* C22: the bytes TranscodeSession.Read returns, in call order, are a
\* prefix of the session's frames in production order with no byte lost;
\* a call returns at most len(buffer) bytes and returns end-of-stream with
\* zero bytes only once the unread buffer is empty: so a Read with a
\* non-empty buffer that has pulled a frame returns at least one byte and
\* no more than it asked for.
C22_ReadIsByteStream ==
  [][(ReadReturnsAfterPull /\ task.caller.want > 0) =>
        (ret'.n >= 1 /\ ret'.n <= task.caller.want /\ ret'.err = "nil")]_vars

\* ------------------------------------------------------------------ C23
\* The mean of the samples, each scaled by the volume of its source.
VolumeMean(list, samples) ==
  ToInt16(Quot(SumOf([k \in 1..Len(samples) |-> list[k].Volume * samples[k]]), Len(samples)))

MixerUsesUnsetOutput ==
  /\ crashed = "" /\ crashed' = "Cleanup: nil finalSession"
  /\ gCalls' = gCalls
  /\ \E m \in Mixers : task[m].pc = "exit"

\* C24: Start() constructs the output session before the mixing task can
\* use it: in no interleaving does the mixing task, the Cleanup it performs
\* on finding no sources included, dereference the output session while it
\* is still unset.
C24_OutputBeforeMixing == [][~MixerUsesUnsetOutput]_vars

\* ------------------------------------------------------------------ C25
\* Mixing task m has stopped for good inside its range loop, at the source
\* it was removing, with later sources of the list not yet polled.
IterationCutShort(m) ==
  /\ task[m].pc = "blocked" /\ muxLock = m
  /\ task[m].idx < Len(muxTranscoders)

\* C25: in each iteration the mixing loop polls every source of the list
\* as it stood when the iteration began exactly once, in insertion order,
\* also when a source is removed during the iteration: no iteration ends
\* at a removed source with later sources of its list left unpolled.
C25_EverySourcePolled == \A m \in Mixers : ~IterationCutShort(m)

\* ------------------------------------------------------------------ C26
\* C26: each pull of the mixing loop asks the source for one complete
\* sample unit of the output sample width, and the loop decodes only bytes
\* it pulled: whenever a mixing task pulls, the slice it hands to Read is
\* at least as long as the sample it decodes from it, so decoding the
\* slice of a successful pull does not fault.
C26_PullIsWholeSample ==
  \A m \in Mixers :
    task[m].pc = "pull" =>
      /\ SampleBufLen >= SampleWidth
      /\ DecodeSample(Zeros(SampleBufLen)).ok

\* ------------------------------------------------------------------ C27
\* C27: a session returned by TranscodeMem or TranscodeFile can be read at
\* once: in every interleaving of the caller with the session's run task,
\* TranscodeSession.Read finds the unread buffer already made, so no Read
\* faults on a buffer that is still nil.
C27_ReadableAtOnce ==
  [][(crashed = "" /\ sess[Direct].alloc /\ sess[Direct].unreadBuffer.isNil)
        => crashed' # "nil unreadBuffer"]_vars

====
